---- MODULE Spec2Model ----
(***************************************************************************)
(* Model of the gag database (src/src/database/gag_database.py): the       *)
(* record parser, the title-keyed store, the inverted keyword index and    *)
(* the scoped search.  A Python str is a sequence of one-character         *)
(* strings; an Optional value is <<>> (None) or <<v>>.                     *)
(***************************************************************************)
EXTENDS Integers, Sequences, FiniteSets, TLC

VARIABLES files, gag_files, pos, gags, index, pc, out, ret, sorted_gags, stdin

vars == <<files, gag_files, pos, gags, index, pc, out, ret, sorted_gags, stdin>>

(***************************************************************************)
(* Bounds of the model.                                                    *)
(***************************************************************************)
MaxFiles == 2

(***************************************************************************)
(* Characters and Python's str operations.                                 *)
(***************************************************************************)
LowerCase == <<"a","b","c","d","e","f","g","h","i","j","k","l","m",
               "n","o","p","q","r","s","t","u","v","w","x","y","z">>

UpperCase == <<"A","B","C","D","E","F","G","H","I","J","K","L","M",
               "N","O","P","Q","R","S","T","U","V","W","X","Y","Z">>

DigitChars == <<"0","1","2","3","4","5","6","7","8","9">>

Range(s) == {s[i] : i \in 1..Len(s)}

PosIn(c, s) == CHOOSE i \in 1..Len(s) : s[i] = c

LowerSet == Range(LowerCase)

UpperSet == Range(UpperCase)

DigitSet == Range(DigitChars)

IsLowerChar(c) == c \in LowerSet

IsUpperChar(c) == c \in UpperSet

IsDigit(c) == c \in DigitSet

\* Python's \s on the characters of the model: space, tab, newline.
IsSpace(c) == c \in {" ", "\t", "\n"}

\* Python's \w: letters, digits and the underscore.
IsWordChar(c) == IsLowerChar(c) \/ IsUpperChar(c) \/ IsDigit(c) \/ c = "_"

\* Code point of a character (the order Python compares str by).
ord(c) ==
  IF IsLowerChar(c) THEN 96 + PosIn(c, LowerCase)
  ELSE IF IsUpperChar(c) THEN 64 + PosIn(c, UpperCase)
  ELSE IF IsDigit(c) THEN 47 + PosIn(c, DigitChars)
  ELSE CASE c = "\t" -> 9
         [] c = "\n" -> 10
         [] c = " " -> 32
         [] c = "'" -> 39
         [] c = "." -> 46
         [] c = ":" -> 58
         [] c = "_" -> 95

char_lower(c) == IF IsUpperChar(c) THEN LowerCase[PosIn(c, UpperCase)] ELSE c

\* str.lower()
lower(s) == [i \in 1..Len(s) |-> char_lower(s[i])]

\* a < b for two str: lexicographic by code point.
StrLess(a, b) ==
  \E k \in 1..(Len(b)) :
     /\ k <= Len(a) + 1
     /\ \A j \in 1..(k - 1) : a[j] = b[j]
     /\ \/ k = Len(a) + 1
        \/ ord(a[k]) < ord(b[k])

\* q in s  (substring test)
IsSubstring(q, s) ==
  \E i \in 0..(Len(s) - Len(q)) : SubSeq(s, i + 1, i + Len(q)) = q

\* str.strip()
strip(s) ==
  LET keep == {i \in 1..Len(s) : ~IsSpace(s[i])}
  IN IF keep = {} THEN <<>>
     ELSE SubSeq(s, CHOOSE i \in keep : \A j \in keep : i <= j,
                    CHOOSE i \in keep : \A j \in keep : i >= j)

\* int() of a run of decimal digits.
RECURSIVE int(_)
int(s) ==
  IF s = <<>> THEN 0
  ELSE 10 * int(SubSeq(s, 1, Len(s) - 1)) + (PosIn(s[Len(s)], DigitChars) - 1)

(***************************************************************************)
(* Optional values.                                                        *)
(***************************************************************************)
None == <<>>

Some(v) == <<v>>

\* Python truthiness of an Optional[str]: neither None nor "".
Truthy(o) == o # None /\ o[1] # <<>>

(***************************************************************************)
(* The regular expressions of parse_gag_file.                              *)
(***************************************************************************)
TitleLabel == <<"T","i","t","l","e",":">>

SeasonLabel == <<"S","e","a","s","o","n",":">>

EpisodeLabel == <<"E","p","i","s","o","d","e",":">>

OrderLabel == <<"E","p","i","s","o","d","e"," ","O","r","d","e","r",":">>

OwnerLabel == <<"C","u","t","a","w","a","y"," ","O","w","n","e","r",":">>

DescLabel == <<"D","e","s","c","r","i","p","t","i","o","n",":">>

\* The literal label matches at position i, ignoring case (re.IGNORECASE).
LabelAt(text, i, label) ==
  /\ i + Len(label) - 1 <= Len(text)
  /\ \A k \in 1..Len(label) : char_lower(text[i + k - 1]) = char_lower(label[k])

\* Greedy \s* from position p: the first position at or after p that holds
\* no whitespace (Len(text) + 1 when the rest of the text is whitespace).
SkipSpace(text, p) ==
  CHOOSE w \in p..(Len(text) + 1) :
     /\ \A j \in p..(w - 1) : IsSpace(text[j])
     /\ w = Len(text) + 1 \/ ~IsSpace(text[w])

\* Lazy .+? followed by (?:\n|$) from position s: the last position of the
\* line of s ('.' matches everything but a newline).
LineEnd(text, s) ==
  CHOOSE e \in s..Len(text) :
     /\ \A j \in s..e : text[j] # "\n"
     /\ e = Len(text) \/ text[e + 1] = "\n"

\* Where group 1 of  label\s*(.+?)(?:\n|$)  starts when the label ends just
\* before p: \s* gives back whitespace until '.' finds a character that is
\* not a newline; 0 when there is no match at this label.
CaptureStart(text, p) ==
  LET w == SkipSpace(text, p)
      cand == {s \in p..w : s <= Len(text) /\ text[s] # "\n"}
  IN IF cand = {} THEN 0 ELSE CHOOSE s \in cand : \A t \in cand : t <= s

\* re.search(r'<label>\s*(.+?)(?:\n|$)', content, re.IGNORECASE): group 1 of
\* the leftmost match, None when nothing matches.
SearchText(content, label) ==
  LET hits == {i \in 1..Len(content) :
                 /\ LabelAt(content, i, label)
                 /\ CaptureStart(content, i + Len(label)) # 0}
  IN IF hits = {} THEN None
     ELSE LET i == CHOOSE h \in hits : \A g \in hits : h <= g
              s == CaptureStart(content, i + Len(label))
          IN Some(SubSeq(content, s, LineEnd(content, s)))

\* Greedy \d+ from position w: the last digit of the run starting at w.
DigitsEnd(text, w) ==
  CHOOSE e \in w..Len(text) :
     /\ \A j \in w..e : IsDigit(text[j])
     /\ e = Len(text) \/ ~IsDigit(text[e + 1])

\* The label at i is followed by optional whitespace and then a digit.
DigitsAfter(text, p) ==
  LET w == SkipSpace(text, p)
  IN w <= Len(text) /\ IsDigit(text[w])

\* re.search(r'<label>\s*(\d+)', content, re.IGNORECASE): group 1 of the
\* leftmost match, None when nothing matches.
SearchDigits(content, label) ==
  LET hits == {i \in 1..Len(content) :
                 /\ LabelAt(content, i, label)
                 /\ DigitsAfter(content, i + Len(label))}
  IN IF hits = {} THEN None
     ELSE LET i == CHOOSE h \in hits : \A g \in hits : h <= g
              w == SkipSpace(content, i + Len(label))
          IN Some(SubSeq(content, w, DigitsEnd(content, w)))

(***************************************************************************)
(* Gag and parse_gag_file.                                                 *)
(***************************************************************************)
TxtSuffix == <<".","t","x","t">>

\* stem with the bug of taking Path.name, suffix included.
stem_keep_suffix(name) == name

\* Path.stem of a "*.txt" file name.
stem(name) == SubSeq(name, 1, Len(name) - Len(TxtSuffix))

\* Gag(title=..., filename=...) with the dataclass defaults.
Gag(title, filename) ==
  [title |-> title, season |-> None, episode |-> None, episode_order |-> None,
   cutaway_owner |-> None, description |-> None, filename |-> filename]

StrField(content, label, default) ==
  LET m == SearchText(content, label)
  IN IF m # None THEN Some(strip(m[1])) ELSE default

IntField(content, label) ==
  LET m == SearchDigits(content, label)
  IN IF m # None THEN Some(int(m[1])) ELSE None

\* parse_gag_file on a file that open() can read: the Gag it returns.
parse_gag_file(name, content) ==
  [Gag(stem(name), name) EXCEPT
     !.title = StrField(content, TitleLabel, Some(@))[1],
     !.season = IntField(content, SeasonLabel),
     !.episode = StrField(content, EpisodeLabel, None),
     !.episode_order = IntField(content, OrderLabel),
     !.cutaway_owner = StrField(content, OwnerLabel, None),
     !.description = StrField(content, DescLabel, None)]

(***************************************************************************)
(* The inverted index: a dict from token to a set of titles.               *)
(***************************************************************************)
main_characters ==
  { <<"p","e","t","e","r"," ","g","r","i","f","f","i","n">>,
    <<"l","o","i","s"," ","g","r","i","f","f","i","n">>,
    <<"s","t","e","w","i","e"," ","g","r","i","f","f","i","n">>,
    <<"c","h","r","i","s"," ","g","r","i","f","f","i","n">>,
    <<"m","e","g"," ","g","r","i","f","f","i","n">>,
    <<"b","r","i","a","n"," ","g","r","i","f","f","i","n">>,
    <<"q","u","a","g","m","i","r","e">>,
    <<"j","o","e"," ","s","w","a","n","s","o","n">>,
    <<"c","l","e","v","e","l","a","n","d"," ","b","r","o","w","n">> }

stop_words ==
  { <<"t","h","e">>, <<"a","n","d">>, <<"f","o","r">>, <<"w","i","t","h">>,
    <<"f","r","o","m">>, <<"h","i","s">>, <<"h","e","r">>, <<"t","h","a","t">>,
    <<"t","h","i","s">>, <<"w","h","e","n">>, <<"w","h","e","r","e">>,
    <<"w","h","a","t">>, <<"h","o","w">>, <<"w","h","o">>,
    <<"w","h","i","c","h">>, <<"w","h","y">>, <<"g","e","t","s">>,
    <<"t","e","l","l","s">>, <<"k","n","o","w">>, <<"f","i","n","d">>,
    <<"m","a","k","e">>, <<"d","o","e","s">>, <<"s","a","y","s">>,
    <<"d","u","r","i","n","g">> }

\* Default of the min_length parameter of _extract_keywords.
min_length == 3

\* re.findall(r'\b[a-z]+\b', t): the runs of word characters of t that are
\* bounded by non-word characters (or the ends of t) and hold only a-z, in
\* the order they occur.
RECURSIVE FindWords(_, _)
FindWords(t, i) ==
  IF i > Len(t) THEN <<>>
  ELSE IF ~IsWordChar(t[i]) THEN FindWords(t, i + 1)
  ELSE LET e == CHOOSE j \in i..Len(t) :
                   /\ \A k \in i..j : IsWordChar(t[k])
                   /\ j = Len(t) \/ ~IsWordChar(t[j + 1])
       IN IF \A k \in i..e : IsLowerChar(t[k])
          THEN <<SubSeq(t, i, e)>> \o FindWords(t, e + 1)
          ELSE FindWords(t, e + 1)

IsKeyword(w) == Len(w) >= min_length /\ w \notin stop_words

extract_keywords(text) == SelectSeq(FindWords(lower(text), 1), IsKeyword)

EmptyDict == [k \in {} |-> {}]

\* IndexAdd with the bug of storing a fresh set on every call:
\* index[key] = {title}
IndexAddReplace(idx, key, title) ==
  [k \in (DOMAIN idx) \cup {key} |-> IF k = key THEN {title} ELSE idx[k]]

\* if key not in index: index[key] = set();  index[key].add(title)
IndexAdd(idx, key, title) ==
  [k \in (DOMAIN idx) \cup {key} |->
     IF k = key
     THEN (IF key \in DOMAIN idx THEN idx[key] ELSE {}) \cup {title}
     ELSE idx[k]]

RECURSIVE IndexWords(_, _, _)
IndexWords(idx, words, title) ==
  IF words = <<>> THEN idx
  ELSE IndexWords(IndexAdd(idx, Head(words), title), Tail(words), title)

index_gag(idx, gag) ==
  LET withOwner ==
        IF Truthy(gag.cutaway_owner)
        THEN IndexAdd(idx, lower(gag.cutaway_owner[1]), gag.title)
        ELSE idx
  IN IF Truthy(gag.description)
     THEN IndexWords(withOwner, extract_keywords(gag.description[1]), gag.title)
     ELSE withOwner

(***************************************************************************)
(* The store: a dict from title to Gag, kept in insertion order.           *)
(***************************************************************************)
Titles(g) == {g[i].title : i \in 1..Len(g)}

DictGet(g, title) == g[CHOOSE i \in 1..Len(g) : g[i].title = title]

\* DictSet with the bug of keeping the record already stored under the
\* title: self.gags.setdefault(gag.title, gag)
DictSetKeepFirst(g, gag) ==
  IF gag.title \in Titles(g) THEN g ELSE Append(g, gag)

\* self.gags[gag.title] = gag
DictSet(g, gag) ==
  IF gag.title \in Titles(g)
  THEN [i \in 1..Len(g) |-> IF g[i].title = gag.title THEN gag ELSE g[i]]
  ELSE Append(g, gag)

\* sorted() of a set of str.
RECURSIVE SortStr(_)
SortStr(S) ==
  IF S = {} THEN <<>>
  ELSE LET m == CHOOSE x \in S : \A y \in S \ {x} : StrLess(x, y)
       IN <<m>> \o SortStr(S \ {m})

\* sorted(results, key=lambda g: g.title): a stable sort of a list of Gag.
RECURSIVE SortByTitle(_)
SortByTitle(s) ==
  IF s = <<>> THEN <<>>
  ELSE LET m == CHOOSE i \in 1..Len(s) :
                   /\ \A j \in 1..Len(s) : ~StrLess(s[j].title, s[i].title)
                   /\ \A j \in 1..(i - 1) : s[j].title # s[i].title
       IN <<s[m]>> \o SortByTitle(SubSeq(s, 1, m - 1) \o SubSeq(s, m + 1, Len(s)))

(***************************************************************************)
(* search and find_non_main_character_gags.                                *)
(***************************************************************************)
CharacterMatch(gag, query_lower) ==
  /\ Truthy(gag.cutaway_owner)
  /\ IsSubstring(query_lower, lower(gag.cutaway_owner[1]))

DescriptionMatch(gag, idx, query_lower) ==
  \/ /\ Truthy(gag.description)
     /\ IsSubstring(query_lower, lower(gag.description[1]))
  \/ /\ query_lower \in DOMAIN idx
     /\ gag.title \in idx[query_lower]

\* Matches with the bug of testing the description rule in scope
\* 'description' only.
MatchesDescriptionOnly(gag, idx, query_lower, search_in) ==
  \/ search_in \in {"character", "all"} /\ CharacterMatch(gag, query_lower)
  \/ search_in \in {"description"} /\ DescriptionMatch(gag, idx, query_lower)

\* The value of match at the end of one iteration of the loop of search.
Matches(gag, idx, query_lower, search_in) ==
  \/ search_in \in {"character", "all"} /\ CharacterMatch(gag, query_lower)
  \/ search_in \in {"description", "all"} /\ DescriptionMatch(gag, idx, query_lower)

\* search with the bug of returning the matches in the order of the store.
search_unsorted(g, idx, query, search_in) ==
  LET match(gag) == Matches(gag, idx, lower(query), search_in)
  IN SelectSeq(g, match)

search(g, idx, query, search_in) ==
  LET query_lower == lower(query)
      results == {g[i].title :
                    i \in {j \in 1..Len(g) : Matches(g[j], idx, query_lower, search_in)}}
      order == SortStr(results)
  IN [i \in 1..Len(order) |-> DictGet(g, order[i])]

IsMain(owner_lower) == \E main \in main_characters : IsSubstring(main, owner_lower)

NonMain(gag) ==
  Truthy(gag.cutaway_owner) /\ ~IsMain(lower(gag.cutaway_owner[1]))

find_non_main_character_gags(g) == SortByTitle(SelectSeq(g, NonMain))

(***************************************************************************)
(* validate_data.                                                          *)
(***************************************************************************)
\* SeasonMissing with the bug of testing truthiness: `if not gag.season`.
SeasonFalsy(gag) == gag.season = None \/ gag.season[1] = 0

\* gag.season is None
SeasonMissing(gag) == gag.season = None

\* EpisodeMissing with the bug of repeating the season test:
\* `if gag.season is None` written twice.
EpisodeMissingAsSeason(gag) == gag.season = None

EpisodeMissing(gag) == gag.episode = None

OwnerMissing(gag) == gag.cutaway_owner = None

DescriptionMissing(gag) == gag.description = None

\* fields_missing at the end of one iteration of the loop.
fields_missing(gag) ==
  (IF SeasonMissing(gag) THEN <<"season">> ELSE <<>>)
    \o (IF EpisodeMissing(gag) THEN <<"episode">> ELSE <<>>)
    \o (IF OwnerMissing(gag) THEN <<"owner">> ELSE <<>>)
    \o (IF DescriptionMissing(gag) THEN <<"description">> ELSE <<>>)

Min(a, b) == IF a <= b THEN a ELSE b

Max(a, b) == IF a >= b THEN a ELSE b

\* stats['season_range'] after the loop has visited the records of s, from
\* the value range before them; None stands for the initial (inf, -inf),
\* for which min and max return the season itself.
RECURSIVE season_range(_, _)
season_range(range, s) ==
  IF s = <<>> THEN range
  ELSE IF SeasonMissing(Head(s)) THEN season_range(range, Tail(s))
  ELSE LET season == Head(s).season[1]
       IN season_range(IF range = None THEN <<season, season>>
                       ELSE <<Min(range[1], season), Max(range[2], season)>>,
                       Tail(s))

\* The record is reported in absurdist_gags.
Absurdist(gag) ==
  /\ Truthy(gag.cutaway_owner)
  /\ ~IsMain(lower(gag.cutaway_owner[1]))
  /\ Truthy(gag.description)

TitleSeq(s) == [i \in 1..Len(s) |-> s[i].title]

validate_data(g) ==
  LET multiple(gag) == Len(fields_missing(gag)) > 1
      several == SelectSeq(g, multiple)
      absurd == SelectSeq(g, Absurdist)
  IN [total_gags |-> Len(g),
      missing_season |-> TitleSeq(SelectSeq(g, SeasonMissing)),
      missing_episode |-> TitleSeq(SelectSeq(g, EpisodeMissing)),
      missing_owner |-> TitleSeq(SelectSeq(g, OwnerMissing)),
      missing_description |-> TitleSeq(SelectSeq(g, DescriptionMissing)),
      missing_multiple_fields |->
        [i \in 1..Len(several) |->
           [title |-> several[i].title, missing |-> fields_missing(several[i])]],
      season_range |-> season_range(None, g),
      characters |->
        SortStr({g[i].cutaway_owner[1] :
                   i \in {j \in 1..Len(g) : ~OwnerMissing(g[j])}}),
      absurdist_gags |->
        [i \in 1..Len(absurd) |->
           [title |-> absurd[i].title, owner |-> absurd[i].cutaway_owner[1],
            description |-> absurd[i].description[1]]]]

(***************************************************************************)
(* The gags directory: its files and the texts they hold.                  *)
(***************************************************************************)
Line(label, value) == label \o <<" ">> \o value \o <<"\n">>

\* title c, a main-character owner, a description with stop words, a
\* keyword and a word that touches a digit
Text1 ==
  Line(TitleLabel, <<"c">>)
    \o Line(OwnerLabel, <<"P","e","t","e","r"," ","G","r","i","f","f","i","n">>)
    \o Line(DescLabel, <<"T","h","e"," ","c","a","t"," ","a","n","d"," ","7","u","p">>)

\* no title line, an owner that is a stop word, a description
Text2 ==
  Line(OwnerLabel, <<"T","h","e">>)
    \o Line(DescLabel, <<"a"," ","C","a","t"," ","s","a","t">>)

\* title c again, another owner, no description
Text3 ==
  Line(TitleLabel, <<"c">>)
    \o Line(OwnerLabel, <<"C","a","t"," ","L","a","d","y">>)

\* an owner label followed by a blank up to the end of the text
Text4 == Line(TitleLabel, <<"d">>) \o OwnerLabel \o <<" ">>

\* no title line, a description label followed by a blank line
Text5 == DescLabel \o <<" ", "\n">>

GagTexts == {Text1, Text2, Text3, Text4, Text5}

FileNames ==
  { <<"a",".","t","x","t">>, <<"b",".","t","x","t">>, <<"c",".","t","x","t">>,
    <<"n","o","t","e","s">> }

\* What a directory entry holds: a text, or something open() fails on.
FileKinds ==
  [content : GagTexts, readable : {TRUE}]
    \cup {[content |-> <<>>, readable |-> FALSE]}

File(name, kind) ==
  [name |-> name, content |-> kind.content, readable |-> kind.readable]

Directories ==
  UNION { { {File(n, c[n]) : n \in N} : c \in [N -> FileKinds] } :
          N \in {M \in SUBSET FileNames : Cardinality(M) <= MaxFiles} }

Queries == { <<>>, <<"t","h","e">>, <<"C","a","t">>, <<"g","r","i","f","f","i","n">> }

Scopes == {"character", "description", "all"}

\* Path.glob("*.txt")
IsTxt(name) ==
  /\ Len(name) >= Len(TxtSuffix)
  /\ SubSeq(name, Len(name) - Len(TxtSuffix) + 1, Len(name)) = TxtSuffix

\* sorted() of a set of paths of one directory: ascending by file name.
RECURSIVE SortFiles(_)
SortFiles(S) ==
  IF S = {} THEN <<>>
  ELSE LET m == CHOOSE f \in S : \A g \in S \ {f} : StrLess(f.name, g.name)
       IN <<m>> \o SortFiles(S \ {m})

(***************************************************************************)
(* The database object and its operations.                                 *)
(***************************************************************************)
Returned(op, query, search_in, value) ==
  [op |-> op, query |-> query, search_in |-> search_in, value |-> value]

\* GagDatabase(gags_dir) over a directory that is absent (None) or present.
Init ==
  /\ files \in {None} \cup {Some(d) : d \in Directories}
  /\ gag_files = <<>>
  /\ pos = 0
  /\ gags = <<>>
  /\ index = EmptyDict
  /\ pc = "idle"
  /\ out = <<>>
  /\ ret = Returned("__init__", <<>>, "", <<>>)
  /\ sorted_gags = <<>>
  /\ stdin = <<>>

\* load_all_gags when the directory does not exist: print and return.
LoadMissingDir ==
  /\ pc = "idle"
  /\ files = None
  /\ out' = <<[msg |-> "Gags directory not found"]>>
  /\ ret' = Returned("load_all_gags", <<>>, "", <<>>)
  /\ UNCHANGED <<files, gag_files, pos, gags, index, pc>>
  /\ UNCHANGED sorted_gags
  /\ UNCHANGED stdin

\* load_all_gags up to the loop: list, sort and count the files.
LoadStart ==
  /\ pc = "idle"
  /\ files # None
  /\ gag_files' = SortFiles({f \in files[1] : IsTxt(f.name)})
  /\ out' = <<[msg |-> "Loading", count |-> Len(gag_files')]>>
  /\ pos' = 1
  /\ pc' = "loading"
  /\ ret' = Returned("load_all_gags", <<>>, "", <<>>)
  /\ UNCHANGED <<files, gags, index>>
  /\ UNCHANGED sorted_gags
  /\ UNCHANGED stdin

\* LoadFile with the bug of an error that leaves the loop: `except` around
\* the loop instead of inside parse_gag_file.
LoadFileAbort ==
  /\ pc = "loading"
  /\ pos <= Len(gag_files)
  /\ LET f == gag_files[pos]
     IN IF f.readable
        THEN LET gag == parse_gag_file(f.name, f.content)
             IN /\ gags' = DictSet(gags, gag)
                /\ index' = index_gag(index, gag)
                /\ out' = out
                /\ pos' = pos + 1
        ELSE /\ out' = Append(out, [msg |-> "Error parsing", name |-> f.name])
             /\ pos' = Len(gag_files) + 1
             /\ UNCHANGED <<gags, index>>
  /\ UNCHANGED <<files, gag_files, pc, ret>>
  /\ UNCHANGED sorted_gags
  /\ UNCHANGED stdin

\* One iteration of the loop: parse the file, store and index the gag; a
\* file that cannot be read is reported and skipped.
LoadFile ==
  /\ pc = "loading"
  /\ pos <= Len(gag_files)
  /\ LET f == gag_files[pos]
     IN IF f.readable
        THEN LET gag == parse_gag_file(f.name, f.content)
             IN /\ gags' = DictSet(gags, gag)
                /\ index' = index_gag(index, gag)
                /\ out' = out
        ELSE /\ out' = Append(out, [msg |-> "Error parsing", name |-> f.name])
             /\ UNCHANGED <<gags, index>>
  /\ pos' = pos + 1
  /\ UNCHANGED <<files, gag_files, pc, ret>>
  /\ UNCHANGED sorted_gags
  /\ UNCHANGED stdin

\* The loop is over: print the number of gags and return.
LoadDone ==
  /\ pc = "loading"
  /\ pos > Len(gag_files)
  /\ out' = Append(out, [msg |-> "Successfully loaded", count |-> Len(gags)])
  /\ pc' = "idle"
  /\ UNCHANGED <<files, gag_files, pos, gags, index, ret>>
  /\ UNCHANGED sorted_gags
  /\ UNCHANGED stdin

\* Search with the bug of an index that is a defaultdict(set): looking up
\* a query that is no key inserts it with an empty set.
SearchInserting ==
  /\ pc = "idle"
  /\ \E query \in Queries, search_in \in Scopes :
        /\ ret' = Returned("search", query, search_in,
                           search(gags, index, query, search_in))
        /\ index' = [k \in (DOMAIN index) \cup {lower(query)} |->
                       IF k \in DOMAIN index THEN index[k] ELSE {}]
  /\ UNCHANGED <<files, gag_files, pos, gags, pc, out>>
  /\ UNCHANGED sorted_gags
  /\ UNCHANGED stdin

Search ==
  /\ pc = "idle"
  /\ \E query \in Queries, search_in \in Scopes :
        ret' = Returned("search", query, search_in,
                        search(gags, index, query, search_in))
  /\ UNCHANGED <<files, gag_files, pos, gags, index, pc, out>>
  /\ UNCHANGED sorted_gags
  /\ UNCHANGED stdin

FindNonMain ==
  /\ pc = "idle"
  /\ ret' = Returned("find_non_main_character_gags", <<>>, "",
                     find_non_main_character_gags(gags))
  /\ UNCHANGED <<files, gag_files, pos, gags, index, pc, out>>
  /\ UNCHANGED sorted_gags
  /\ UNCHANGED stdin

Validate ==
  /\ pc = "idle"
  /\ ret' = Returned("validate_data", <<>>, "", <<validate_data(gags)>>)
  /\ UNCHANGED <<files, gag_files, pos, gags, index, pc, out>>
  /\ UNCHANGED sorted_gags
  /\ UNCHANGED stdin

Next ==
  \/ LoadMissingDir
  \/ LoadStart
  \/ LoadFile
  \/ LoadDone
  \/ Search
  \/ FindNonMain
  \/ Validate

Spec == Init /\ [][Next]_vars

(***************************************************************************)
(* The parser on its own: one text, parsed once.                           *)
(***************************************************************************)
MaxLines == 2

ParseLines ==
  { Line(SeasonLabel, <<"5">>),
    Line(SeasonLabel, <<"5","x">>),
    Line(SeasonLabel, <<"x">>),
    SeasonLabel \o <<"\n">>,
    <<"s","e","a","s","o","n",":","1","2">>,
    <<"7","\n">>,
    Line(OrderLabel, <<"3">>),
    Line(OrderLabel, <<"3","r","d">>),
    Line(EpisodeLabel, <<"P","i","l","o","t">>),
    Line(TitleLabel, <<"t">>),
    OwnerLabel \o <<" ","\n">>,
    Line(DescLabel, <<"x"," ","1">>),
    TitleLabel \o <<" ">>,
    <<"h","i"," ","y","o","u","\n">>,
    Line(DescLabel, <<"c","a","t","9"," ","D","o","g","s">>) }

RECURSIVE Concat(_)
Concat(ls) == IF ls = <<>> THEN <<>> ELSE Head(ls) \o Concat(Tail(ls))

ParseTexts ==
  {Concat(ls) : ls \in UNION {[1..n -> ParseLines] : n \in 0..MaxLines}}

ParseName == <<"a",".","t","x","t">>

InitParse ==
  /\ files \in {Some({File(ParseName, [content |-> t, readable |-> TRUE])}) :
                  t \in ParseTexts}
  /\ gag_files = <<>>
  /\ pos = 0
  /\ gags = <<>>
  /\ index = EmptyDict
  /\ pc = "idle"
  /\ out = <<>>
  /\ ret = Returned("__init__", <<>>, "", <<>>)
  /\ sorted_gags = <<>>
  /\ stdin = <<>>

\* parse_gag_file(filepath) on the one file of the directory.
ParseFile ==
  /\ ret.op = "__init__"
  /\ \E f \in files[1] :
        ret' = Returned("parse_gag_file", f.content, "",
                        <<parse_gag_file(f.name, f.content)>>)
  /\ UNCHANGED <<files, gag_files, pos, gags, index, pc, out>>
  /\ UNCHANGED sorted_gags
  /\ UNCHANGED stdin

\* _index_gag(gag) on the record that was parsed.
IndexParsed ==
  /\ ret.op = "parse_gag_file"
  /\ index' = index_gag(index, ret.value[1])
  /\ ret' = Returned("_index_gag", ret.query, "", ret.value)
  /\ UNCHANGED <<files, gag_files, pos, gags, pc, out>>
  /\ UNCHANGED sorted_gags
  /\ UNCHANGED stdin

NextParse ==
  \/ ParseFile
  \/ IndexParsed

SpecParse == InitParse /\ [][NextParse]_vars

(***************************************************************************)
(* The validator over directories whose files differ in the fields they    *)
(* hold.                                                                   *)
(***************************************************************************)
\* every field, season 0, an owner outside the main cast
VText1 ==
  Line(TitleLabel, <<"c">>) \o Line(SeasonLabel, <<"0">>)
    \o Line(EpisodeLabel, <<"P","i","l","o","t">>)
    \o Line(OwnerLabel, <<"D","e","a","t","h">>)
    \o Line(DescLabel, <<"x">>)

\* no episode, a main-character owner
VText2 ==
  Line(SeasonLabel, <<"5">>)
    \o Line(OwnerLabel, <<"P","e","t","e","r"," ","G","r","i","f","f","i","n">>)
    \o Line(DescLabel, <<"x">>)

\* a season that is no number, no owner, no description
VText3 == Line(SeasonLabel, <<"x">>) \o Line(EpisodeLabel, <<"P","i","l","o","t">>)

\* an owner outside the main cast and a description that is blank
VText4 == Line(OwnerLabel, <<"D","e","a","t","h">>) \o DescLabel \o <<" ">>

\* a title only, the title of VText1
VText5 == Line(TitleLabel, <<"c">>)

\* an owner that is blank
VText6 ==
  Line(SeasonLabel, <<"1","2">>) \o Line(EpisodeLabel, <<"P","i","l","o","t">>)
    \o Line(DescLabel, <<"x">>) \o OwnerLabel \o <<" ">>

ValidateTexts == {VText1, VText2, VText3, VText4, VText5, VText6}

ValidateKinds ==
  [content : ValidateTexts, readable : {TRUE}]
    \cup {[content |-> <<>>, readable |-> FALSE]}

ValidateDirectories ==
  UNION { { {File(n, c[n]) : n \in N} : c \in [N -> ValidateKinds] } :
          N \in {M \in SUBSET {n \in FileNames : IsTxt(n)} :
                   Cardinality(M) <= MaxFiles} }

InitValidate ==
  /\ files \in {None} \cup {Some(d) : d \in ValidateDirectories}
  /\ gag_files = <<>>
  /\ pos = 0
  /\ gags = <<>>
  /\ index = EmptyDict
  /\ pc = "idle"
  /\ out = <<>>
  /\ ret = Returned("__init__", <<>>, "", <<>>)
  /\ sorted_gags = <<>>
  /\ stdin = <<>>

NextValidate ==
  \/ LoadMissingDir
  \/ LoadStart
  \/ LoadFile
  \/ LoadDone
  \/ Validate

SpecValidate == InitValidate /\ [][NextValidate]_vars

(***************************************************************************)
(* One database object loaded again and again while the directory changes  *)
(* between the calls, as between the two loads of generate_missing_report. *)
(***************************************************************************)
ReloadNames == { <<"a",".","t","x","t">>, <<"b",".","t","x","t">> }

ReloadTexts == {Text1, Text2, Text3}

ReloadDirectories ==
  {d \in Directories :
     \A f \in d : f.name \in ReloadNames /\ f.readable /\ f.content \in ReloadTexts}

InitReload ==
  /\ files \in {Some(d) : d \in ReloadDirectories}
  /\ gag_files = <<>>
  /\ pos = 0
  /\ gags = <<>>
  /\ index = EmptyDict
  /\ pc = "idle"
  /\ out = <<>>
  /\ ret = Returned("__init__", <<>>, "", <<>>)
  /\ sorted_gags = <<>>
  /\ stdin = <<>>

\* Between two calls files of the directory are added, removed or rewritten.
ChangeDir ==
  /\ pc = "idle"
  /\ files' \in {Some(d) : d \in ReloadDirectories} \ {files}
  /\ UNCHANGED <<gag_files, pos, gags, index, pc, out, ret>>
  /\ UNCHANGED sorted_gags
  /\ UNCHANGED stdin

NextReload ==
  \/ LoadStart
  \/ LoadFile
  \/ LoadDone
  \/ ChangeDir

SpecReload == InitReload /\ [][NextReload]_vars

(***************************************************************************)
(* The scraper's save_gags_to_files (src/src/scrapers/scrape_gags.py),     *)
(* which writes the files of the gags directory, followed by the parser on *)
(* a file it wrote.                                                        *)
(***************************************************************************)
MaxGags == 3

\* The characters that sanitize_filename removes: [<>:"/\\|?*]
InvalidChars == {"<", ">", ":", "\"", "/", "\\", "|", "?", "*"}

IsValidChar(c) == c \notin InvalidChars

sanitize_filename(filename) ==
  LET kept == strip(SelectSeq(filename, IsValidChar))
  IN IF kept # <<>> THEN kept ELSE <<"u","n","k","n","o","w","n">>

\* str(n) of a non-negative int, as the f-strings format the season.
RECURSIVE str(_)
str(n) ==
  IF n < 10 THEN <<DigitChars[n + 1]>>
  ELSE str(n \div 10) \o <<DigitChars[(n % 10) + 1]>>

\* os.path.splitext on a path whose last component is p: the extension
\* starts at the last dot, unless only dots precede it.
splitext(p) ==
  LET dots == {i \in 1..Len(p) : p[i] = "."}
      d == CHOOSE i \in dots : \A j \in dots : j <= i
  IN IF dots = {} \/ \A k \in 1..(d - 1) : p[k] = "."
     THEN <<p, <<>>>>
     ELSE <<SubSeq(p, 1, d - 1), SubSeq(p, d, Len(p))>>

\* Bound of the counter of the while loop.
counter_limit == 100

Names(dir) == {f.name : f \in dir}

\* filepath after the while loop that looks for a path that does not exist,
\* from the values of filepath and counter before an iteration.
RECURSIVE save_path(_, _, _, _, _)
save_path(dir, base_path, season, filepath, counter) ==
  IF filepath \in Names(dir) /\ counter < counter_limit
  THEN LET parts == splitext(base_path)
       IN save_path(dir, base_path, season,
                    parts[1] \o <<"_", "s">> \o str(season) \o parts[2],
                    counter + 1)
  ELSE filepath

\* The text written for one gag.
content_of(gag) ==
  Line(TitleLabel, gag.title)
    \o Line(SeasonLabel, str(gag.season))
    \o Line(EpisodeLabel, gag.episode)
    \o Line(OrderLabel, gag.episode_order)
    \o Line(OwnerLabel, gag.owner)
    \o Line(DescLabel, gag.description)

\* sorted(gags, key=lambda x: x['title'].lower()): stable, ascending.
RECURSIVE sort_gags(_)
sort_gags(s) ==
  IF s = <<>> THEN <<>>
  ELSE LET m == CHOOSE i \in 1..Len(s) :
                   /\ \A j \in 1..Len(s) :
                         ~StrLess(lower(s[j].title), lower(s[i].title))
                   /\ \A j \in 1..(i - 1) :
                         lower(s[j].title) # lower(s[i].title)
       IN <<s[m]>> \o sort_gags(SubSeq(s, 1, m - 1) \o SubSeq(s, m + 1, Len(s)))

ScrapedGag(title, season, episode, owner, episode_order, description) ==
  [title |-> title, season |-> season, episode |-> episode, owner |-> owner,
   episode_order |-> episode_order, description |-> description]

Pilot == <<"P","i","l","o","t">>

\* What scrape_season can return: title and episode are not empty, the
\* other texts may be.
ScrapedGags ==
  { ScrapedGag(<<"a">>, 1, Pilot, <<"D","e","a","t","h">>, <<"3">>, <<"x">>),
    ScrapedGag(<<"a">>, 1, Pilot, <<"D","e","a","t","h">>, <<"3">>, <<"y">>),
    ScrapedGag(<<"a",":">>, 2, Pilot, <<>>, <<>>, <<"x">>),
    ScrapedGag(<<"B">>, 12, Pilot, <<"D","e","a","t","h">>, <<>>, <<>>),
    ScrapedGag(<<":">>, 1, Pilot, <<"D","e","a","t","h">>, <<"3">>, <<"x">>) }

GagLists == UNION {[1..n -> ScrapedGags] : n \in 0..MaxGags}

\* The output directory before the call: absent, empty, or holding files
\* of an earlier run.
SaveDirectories ==
  { {},
    {File(<<"a",".","t","x","t">>, [content |-> Text3, readable |-> TRUE])},
    {File(<<"a",".","t","x","t">>, [content |-> Text3, readable |-> TRUE]),
     File(<<"a","_","s","1",".","t","x","t">>, [content |-> Text3, readable |-> TRUE])} }

InitSave ==
  /\ files \in {None} \cup {Some(d) : d \in SaveDirectories}
  /\ gag_files = <<>>
  /\ pos = 0
  /\ gags = <<>>
  /\ index = EmptyDict
  /\ pc = "idle"
  /\ out = <<>>
  /\ ret = Returned("__init__", <<>>, "", <<>>)
  /\ sorted_gags = <<>>
  /\ stdin = <<>>

\* save_gags_to_files up to the loop: make the directory, sort the gags.
SaveStart ==
  /\ pc = "idle"
  /\ ret.op = "__init__"
  /\ \E arg \in GagLists : sorted_gags' = sort_gags(arg)
  /\ files' = IF files = None THEN Some({}) ELSE files
  /\ pos' = 1
  /\ pc' = "saving"
  /\ out' = <<>>
  /\ ret' = Returned("save_gags_to_files", <<>>, "", <<>>)
  /\ UNCHANGED <<gag_files, gags, index>>
  /\ UNCHANGED stdin

\* One iteration of the loop: choose the path, write the file, print.
SaveGag ==
  /\ pc = "saving"
  /\ pos <= Len(sorted_gags)
  /\ LET gag == sorted_gags[pos]
         filename == sanitize_filename(gag.title) \o TxtSuffix
         filepath == save_path(files[1], filename, gag.season, filename, 1)
         written == File(filepath, [content |-> content_of(gag), readable |-> TRUE])
     IN /\ files' = Some({f \in files[1] : f.name # filepath} \cup {written})
        /\ out' = Append(out, [msg |-> "Saved", name |-> filename])
  /\ pos' = pos + 1
  /\ UNCHANGED <<gag_files, gags, index, pc, ret, sorted_gags>>
  /\ UNCHANGED stdin

\* The loop is over.
SaveDone ==
  /\ pc = "saving"
  /\ pos > Len(sorted_gags)
  /\ pc' = "idle"
  /\ UNCHANGED <<files, gag_files, pos, gags, index, out, ret, sorted_gags>>
  /\ UNCHANGED stdin

\* parse_gag_file on a file of the directory after the save.
ParseSaved ==
  /\ pc = "idle"
  /\ ret.op = "save_gags_to_files"
  /\ \E f \in files[1] :
        ret' = Returned("parse_gag_file", f.content, "",
                        <<parse_gag_file(f.name, f.content)>>)
  /\ UNCHANGED <<files, gag_files, pos, gags, index, pc, out, sorted_gags>>
  /\ UNCHANGED stdin

NextSave ==
  \/ SaveStart
  \/ SaveGag
  \/ SaveDone
  \/ ParseSaved

SpecSave == InitSave /\ [][NextSave]_vars

(***************************************************************************)
(* interactive_search (src/src/database/search_gags.py): the database is   *)
(* loaded once, then a loop reads one line of the standard input per       *)
(* iteration.  out holds what the latest iteration printed.                *)
(***************************************************************************)
MaxInput == 2

\* The words of the commands, and lines a user may type.
QUIT == <<"q","u","i","t">>

EXIT == <<"e","x","i","t">>

EXIT_UPPER == <<"E","X","I","T">>

STATS == <<"s","t","a","t","s">>

SEARCH == <<"s","e","a","r","c","h">>

CHAR == <<"c","h","a","r">>

DESC == <<"d","e","s","c">>

LIST == <<"l","i","s","t">>

ABSURDIST == <<"a","b","s","u","r","d","i","s","t">>

SEARCHCAT == <<"s","e","a","r","c","h"," ","c","a","t">>

CHARONLY == CHAR

BOGUS == <<"n","o","p","e">>

InputLines ==
  { <<>>, QUIT, EXIT_UPPER, STATS, SEARCHCAT, CHARONLY, ABSURDIST, BOGUS }

\* What the standard input holds before its end.
InputStreams == UNION {[1..n -> InputLines] : n \in 0..MaxInput}

InteractiveDirectories ==
  { {},
    {File(<<"a",".","t","x","t">>, [content |-> Text1, readable |-> TRUE])},
    {File(<<"a",".","t","x","t">>, [content |-> VText1, readable |-> TRUE])},
    {File(<<"a",".","t","x","t">>, [content |-> VText1, readable |-> TRUE]),
     File(<<"b",".","t","x","t">>, [content |-> VText2, readable |-> TRUE])} }

\* user_input.split(maxsplit=1) of a stripped line: the position of the
\* first white space, 0 when there is none.
FirstSpace(s) ==
  LET sp == {i \in 1..Len(s) : IsSpace(s[i])}
  IN IF sp = {} THEN 0 ELSE CHOOSE i \in sp : \A j \in sp : i <= j

\* parts[0].lower()
command_of(user_input) ==
  lower(IF FirstSpace(user_input) = 0 THEN user_input
        ELSE SubSeq(user_input, 1, FirstSpace(user_input) - 1))

\* parts[1] if len(parts) > 1 else ""
query_of(user_input) ==
  IF FirstSpace(user_input) = 0 THEN <<>>
  ELSE strip(SubSeq(user_input, FirstSpace(user_input), Len(user_input)))

\* The scope each searching command passes to db.search.
scope_of(command) ==
  IF command = SEARCH THEN "all"
  ELSE IF command = DESC THEN "description"
  ELSE "character"

\* The lines of "Display results".
display(results) ==
  IF results = <<>> THEN <<[msg |-> "No results found"]>>
  ELSE <<[msg |-> "Found", count |-> Len(results)]>>

InitInteractive ==
  /\ files \in {None} \cup {Some(d) : d \in InteractiveDirectories}
  /\ gag_files = <<>>
  /\ pos = 0
  /\ gags = <<>>
  /\ index = EmptyDict
  /\ pc = "idle"
  /\ out = <<>>
  /\ ret = Returned("__init__", <<>>, "", <<>>)
  /\ sorted_gags = <<>>
  /\ stdin \in InputStreams

\* db.load_all_gags() of line 12, called once.
LoadOnce ==
  /\ ret.op = "__init__"
  /\ LoadMissingDir \/ LoadStart

\* The banner is printed and the loop is entered.
EnterLoop ==
  /\ pc = "idle"
  /\ ret.op = "load_all_gags"
  /\ pc' = "prompt"
  /\ out' = <<[msg |-> "Loaded", count |-> Len(gags)]>>
  /\ ret' = Returned("interactive_search", <<>>, "", <<>>)
  /\ UNCHANGED <<files, gag_files, pos, gags, index, sorted_gags, stdin>>

\* One iteration of the loop in which input() returns a line.
ReadCommand ==
  /\ pc = "prompt"
  /\ stdin # <<>>
  /\ LET user_input == strip(Head(stdin))
         command == command_of(user_input)
         query == query_of(user_input)
     IN IF user_input = <<>>
        THEN out' = <<>> /\ UNCHANGED <<pc, ret>>
        ELSE IF lower(user_input) \in {QUIT, EXIT}
        THEN pc' = "exited" /\ out' = <<[msg |-> "Goodbye"]>> /\ UNCHANGED ret
        ELSE IF command \in {SEARCH, CHAR, DESC, LIST}
        THEN IF query = <<>>
             THEN out' = <<[msg |-> "Please enter"]>> /\ UNCHANGED <<pc, ret>>
             ELSE LET results == search(gags, index, query, scope_of(command))
                  IN /\ ret' = Returned("search", query, scope_of(command), results)
                     /\ out' = display(results)
                     /\ UNCHANGED pc
        ELSE IF command = ABSURDIST
        THEN LET results == find_non_main_character_gags(gags)
             IN /\ ret' = Returned("find_non_main_character_gags", <<>>, "", results)
                /\ out' = display(results)
                /\ UNCHANGED pc
        ELSE IF command = STATS
        THEN LET stats == validate_data(gags)
             IN /\ ret' = Returned("validate_data", <<>>, "", <<stats>>)
                /\ out' = IF stats.season_range = None
                          THEN <<[msg |-> "Total Gags", count |-> stats.total_gags],
                                 [msg |-> "Error", error |-> "TypeError"]>>
                          ELSE <<[msg |-> "Total Gags", count |-> stats.total_gags],
                                 [msg |-> "Season Range",
                                  count |-> stats.season_range[1]],
                                 [msg |-> "Absurdist Gags",
                                  count |-> Len(stats.absurdist_gags)]>>
                /\ UNCHANGED pc
        ELSE /\ out' = <<[msg |-> "Unknown command", name |-> command]>>
             /\ UNCHANGED <<pc, ret>>
  /\ stdin' = Tail(stdin)
  /\ UNCHANGED <<files, gag_files, pos, gags, index, sorted_gags>>

\* One iteration of the loop at the end of the input: input() raises
\* EOFError, `except Exception` prints it and the loop goes on.
ReadEof ==
  /\ pc = "prompt"
  /\ stdin = <<>>
  /\ out' = <<[msg |-> "Error", error |-> "EOFError"]>>
  /\ UNCHANGED <<files, gag_files, pos, gags, index, pc, ret, sorted_gags, stdin>>

\* Ctrl-C at the prompt: `except KeyboardInterrupt` leaves the loop.
Interrupt ==
  /\ pc = "prompt"
  /\ pc' = "exited"
  /\ out' = <<[msg |-> "Goodbye"]>>
  /\ UNCHANGED <<files, gag_files, pos, gags, index, ret, sorted_gags, stdin>>

NextInteractive ==
  \/ LoadOnce
  \/ LoadFile
  \/ LoadDone
  \/ EnterLoop
  \/ ReadCommand
  \/ ReadEof
  \/ Interrupt

SpecInteractive == InitInteractive /\ [][NextInteractive]_vars

\* The steps of the program that neither parse a file nor run a command.
ProgramStep ==
  \/ LoadOnce
  \/ LoadDone
  \/ EnterLoop
  \/ ReadEof

\* What a LoadFile step does to the position in gag_files; in a behaviour
\* of SpecInteractive only LoadFile steps are such steps.
LoadFileAdvance ==
  /\ pc = "loading"
  /\ pos <= Len(gag_files)
  /\ pos' = pos + 1

\* What a ReadCommand step does to the standard input; in a behaviour of
\* SpecInteractive only ReadCommand steps are such steps.
ReadCommandAdvance ==
  /\ pc = "prompt"
  /\ stdin # <<>>
  /\ stdin' = Tail(stdin)

\* The program is sequential and runs on as long as it has a step to take;
\* nobody has to press Ctrl-C.
SpecInteractiveFair ==
  /\ SpecInteractive
  /\ WF_vars(ProgramStep)
  /\ WF_pos(LoadFileAdvance)
  /\ WF_stdin(ReadCommandAdvance)

(***************************************************************************)
(* Properties.                                                            *)
(***************************************************************************)
\* load_all_gags has run to its end and nothing has been loaded since.
Loaded ==
  /\ pc = "idle"
  /\ out # <<>>
  /\ out[Len(out)].msg = "Successfully loaded"

Searched(search_in) == ret.op = "search" /\ ret.search_in = search_in

ReturnedTitles == {ret.value[i].title : i \in 1..Len(ret.value)}

TitlesOf(s) == {s[i].title : i \in 1..Len(s)}

\* The files of the directory that the load parses, and what they parse to.
ParsedFiles == {f \in files[1] : IsTxt(f.name) /\ f.readable}

ParseOf(f) == parse_gag_file(f.name, f.content)

\* C1: in character scope a record is returned if and only if its owner is
\* set (not None; the empty string counts as set) and the lower-cased query
\* is a substring of the lower-cased owner.
C1_CharacterScope ==
  Searched("character") =>
    \A i \in 1..Len(gags) :
       gags[i].title \in ReturnedTitles
         <=> /\ gags[i].cutaway_owner # None
             /\ IsSubstring(lower(ret.query), lower(gags[i].cutaway_owner[1]))

\* C2: in description scope a record is returned if and only if its
\* description is set and contains the lower-cased query, or the lower-cased
\* query is a key of the index whose title set holds the record's title.
C2_DescriptionScope ==
  Searched("description") =>
    \A i \in 1..Len(gags) :
       gags[i].title \in ReturnedTitles
         <=> \/ /\ gags[i].description # None
                /\ IsSubstring(lower(ret.query), lower(gags[i].description[1]))
             \/ /\ lower(ret.query) \in DOMAIN index
                /\ gags[i].title \in index[lower(ret.query)]

\* C3: the titles returned in scope 'all' are the union of the titles
\* returned for the same query in scope 'character' and scope 'description'.
C3_AllIsUnion ==
  Searched("all") =>
    ReturnedTitles =
      TitlesOf(search(gags, index, ret.query, "character"))
        \cup TitlesOf(search(gags, index, ret.query, "description"))

\* C3 witness: an 'all' search that returns one record only the character
\* rule finds and another that only the description rule finds.
C3_Witness ==
  /\ Searched("all")
  /\ \E t \in ReturnedTitles :
        /\ t \in TitlesOf(search(gags, index, ret.query, "character"))
        /\ t \notin TitlesOf(search(gags, index, ret.query, "description"))
  /\ \E t \in ReturnedTitles :
        /\ t \notin TitlesOf(search(gags, index, ret.query, "character"))
        /\ t \in TitlesOf(search(gags, index, ret.query, "description"))

\* C4: the sequence search returns is strictly ascending by title (sorted,
\* no title twice), in every scope, and holds the records of the store.
C4_SortedNoDuplicates ==
  ret.op = "search" =>
    /\ \A i \in 1..(Len(ret.value) - 1) :
          StrLess(ret.value[i].title, ret.value[i + 1].title)
    /\ \A i \in 1..Len(ret.value) :
          ret.value[i] = DictGet(gags, ret.value[i].title)

\* C4 witness: a search that returns two records which the store holds in
\* the opposite order, one of them matched by both rules.
C4_Witness ==
  /\ Searched("all")
  /\ Len(ret.value) >= 2
  /\ \E i, j \in 1..Len(gags) :
        /\ i < j
        /\ StrLess(gags[j].title, gags[i].title)
        /\ {gags[i].title, gags[j].title} \subseteq ReturnedTitles
  /\ \E i \in 1..Len(ret.value) :
        /\ CharacterMatch(ret.value[i], lower(ret.query))
        /\ DescriptionMatch(ret.value[i], index, lower(ret.query))

\* A searched field of the record holds the query as a literal substring,
\* case-insensitively.
LiteralMatch(gag, search_in, query_lower) ==
  \/ /\ search_in \in {"character", "all"}
     /\ gag.cutaway_owner # None
     /\ IsSubstring(query_lower, lower(gag.cutaway_owner[1]))
  \/ /\ search_in \in {"description", "all"}
     /\ gag.description # None
     /\ IsSubstring(query_lower, lower(gag.description[1]))

\* C5: no stop word is a key of the index, and a query that is a stop word
\* returns, in description or all scope, only records that hold the query as
\* a literal substring of a searched field.
C5_StopWordNeverViaIndex ==
  /\ \A w \in stop_words : w \notin DOMAIN index
  /\ (ret.op = "search" /\ ret.search_in \in {"description", "all"}
        /\ lower(ret.query) \in stop_words)
       => \A i \in 1..Len(ret.value) :
             LiteralMatch(ret.value[i], ret.search_in, lower(ret.query))

\* C6: find_non_main_character_gags returns, ascending by title, exactly the
\* records whose owner is set and holds no main-character name; no record
\* without an owner and no owner holding "peter griffin" is returned.
C6_FindNonMain ==
  ret.op = "find_non_main_character_gags" =>
    /\ \A i \in 1..(Len(ret.value) - 1) :
          StrLess(ret.value[i].title, ret.value[i + 1].title)
    /\ \A i \in 1..Len(gags) :
          gags[i] \in Range(ret.value)
            <=> /\ gags[i].cutaway_owner # None
                /\ ~IsMain(lower(gags[i].cutaway_owner[1]))
    /\ \A i \in 1..Len(ret.value) :
          /\ ret.value[i].cutaway_owner # None
          /\ ~IsSubstring(<<"p","e","t","e","r"," ","g","r","i","f","f","i","n">>,
                          lower(ret.value[i].cutaway_owner[1]))

\* The index rebuilt from the store alone: every stored record indexed into
\* an empty index.
RECURSIVE IndexAll(_, _)
IndexAll(idx, s) ==
  IF s = <<>> THEN idx ELSE IndexAll(index_gag(idx, Head(s)), Tail(s))

\* C7: after a load the index is exactly the index recomputed from the
\* store alone.
C7_IndexIsDerivedFromStore ==
  Loaded => index = IndexAll(EmptyDict, gags)

\* Among the parsed records, the one with title t whose file comes last in
\* ascending order of file name.
LastYielding(parsed, t) ==
  CHOOSE r \in parsed :
     /\ r.title = t
     /\ \A q \in parsed : q.title = t => ~StrLess(r.filename, q.filename)

\* C8: after a load the store maps every yielded title to the record of the
\* last file, in ascending path order, that yields it, and holds as many
\* records as there are distinct yielded titles.
C8_LastWriteWins ==
  Loaded =>
    LET parsed == {ParseOf(f) : f \in ParsedFiles}
    IN /\ \A r \in parsed :
             /\ r.title \in Titles(gags)
             /\ DictGet(gags, r.title) = LastYielding(parsed, r.title)
       /\ Len(gags) = Cardinality({r.title : r \in parsed})

\* C8 witness: a finished load of two files that yield one title with
\* different records.
C8_Witness ==
  /\ Loaded
  /\ LET parsed == {ParseOf(f) : f \in ParsedFiles}
     IN \E r, q \in parsed :
           /\ StrLess(r.filename, q.filename)
           /\ r.title = q.title
           /\ r.cutaway_owner # q.cutaway_owner

\* All the orders in which the records of S can be processed.
Orders(S) ==
  {s \in [1..Cardinality(S) -> S] :
     \A i, j \in 1..Cardinality(S) : i # j => s[i] # s[j]}

\* C9: the index built by a load is the index built by indexing the parsed
\* records in any other order, and a second load builds the same index.
C9_IndexOrderIndependent ==
  Loaded =>
    LET parsed == {ParseOf(f) : f \in ParsedFiles}
    IN \A s \in Orders(parsed) : IndexAll(EmptyDict, s) = index

\* C9 witness: a finished load of two files whose records share a token
\* under different titles.
C9_Witness ==
  /\ Loaded
  /\ \E k \in DOMAIN index : Cardinality(index[k]) >= 2

\* The text between the end of a label at p - 1 and the end of its line,
\* trimmed.
LineValue(text, p) ==
  IF p > Len(text) \/ text[p] = "\n" THEN <<>>
  ELSE strip(SubSeq(text, p, LineEnd(text, p)))

\* Some line of the text holds the label followed by digits only.
HasDigitValue(text, label) ==
  \E i \in 1..Len(text) :
     /\ LabelAt(text, i, label)
     /\ LineValue(text, i + Len(label)) # <<>>
     /\ \A k \in 1..Len(LineValue(text, i + Len(label))) :
           IsDigit(LineValue(text, i + Len(label))[k])

\* C10: parse_gag_file sets season and episode_order only when the value
\* after the label on its line is purely digits; otherwise the field is unset
\* and a record is still produced.
C10_NumericOnlyIfDigits ==
  ret.op = "parse_gag_file" =>
    /\ Len(ret.value) = 1
    /\ ret.value[1].season # None => HasDigitValue(ret.query, SeasonLabel)
    /\ ret.value[1].episode_order # None => HasDigitValue(ret.query, OrderLabel)

\* The six labels parse_gag_file looks for.
Labels == {TitleLabel, SeasonLabel, EpisodeLabel, OrderLabel, OwnerLabel, DescLabel}

\* The first position at which the label occurs in the text, 0 when it does
\* not occur.
FirstLabel(text, label) ==
  LET occ == {i \in 1..Len(text) : LabelAt(text, i, label)}
  IN IF occ = {} THEN 0 ELSE CHOOSE i \in occ : \A j \in occ : i <= j

\* A stored value is the trimmed rest of the line of the label's first
\* occurrence.
FromOwnLine(value, text, label) ==
  value = LineValue(text, FirstLabel(text, label) + Len(label))

\* C11: every string field that parse_gag_file sets from a label holds the
\* trimmed text between the label's colon and the end of the same line, and
\* never text of a following line.
C11_StringValueFromOwnLine ==
  ret.op = "parse_gag_file" =>
    LET text == ret.query
        gag == ret.value[1]
    IN /\ FirstLabel(text, TitleLabel) # 0 =>
             \/ gag.title = stem(gag.filename)
             \/ FromOwnLine(gag.title, text, TitleLabel)
       /\ gag.episode # None => FromOwnLine(gag.episode[1], text, EpisodeLabel)
       /\ gag.cutaway_owner # None =>
             FromOwnLine(gag.cutaway_owner[1], text, OwnerLabel)
       /\ gag.description # None =>
             FromOwnLine(gag.description[1], text, DescLabel)

\* C12: every record parse_gag_file produces has a non-empty title.
C12_TitleNonEmpty ==
  ret.op = "parse_gag_file" => ret.value[1].title # <<>>

NoLabel(text) == \A label \in Labels : FirstLabel(text, label) = 0

\* C13: for a text that holds none of the six labels parse_gag_file returns
\* a record whose title is the base name of the file and whose other fields
\* are all unset.
C13_NoLabelsGivesDefaults ==
  (ret.op = "parse_gag_file" /\ NoLabel(ret.query)) =>
    /\ ret.value[1].title = SubSeq(ParseName, 1, Len(ParseName) - 4)
    /\ ret.value[1].season = None
    /\ ret.value[1].episode = None
    /\ ret.value[1].episode_order = None
    /\ ret.value[1].cutaway_owner = None
    /\ ret.value[1].description = None

\* C13 witness: a parsed text of several lines without any label.
C13_Witness ==
  /\ ret.op = "parse_gag_file"
  /\ NoLabel(ret.query)
  /\ Len(ret.query) > 3
  /\ ret.value[1].title = <<"a">>

Validated == ret.op = "validate_data"

Report == ret.value[1]

\* How many of season, episode, owner and description the record lacks.
MissingCount(gag) ==
  Cardinality({f \in {"season", "episode", "cutaway_owner", "description"} :
                 gag[f] = None})

\* In how many of the four missing lists of the report the title appears.
ListedCount(title) ==
  Cardinality({l \in {"missing_season", "missing_episode", "missing_owner",
                      "missing_description"} : title \in Range(Report[l])})

\* C14: in the report of validate_data a title whose record lacks exactly k
\* of season, episode, owner and description is in exactly k of the four
\* missing lists, and in missing_multiple_fields if and only if k > 1.
C14_MissingListsPartition ==
  Validated =>
    \A i \in 1..Len(gags) :
       /\ ListedCount(gags[i].title) = MissingCount(gags[i])
       /\ gags[i].title \in TitlesOf(Report.missing_multiple_fields)
            <=> MissingCount(gags[i]) > 1

\* C14 witness: a report over a store with a record that lacks one field
\* and a record that lacks several.
C14_Witness ==
  /\ Validated
  /\ \E i \in 1..Len(gags) : MissingCount(gags[i]) = 1
  /\ \E i \in 1..Len(gags) : MissingCount(gags[i]) > 1
  /\ Len(Report.missing_multiple_fields) = 1

\* The seasons of the records that have one.
Seasons == {gags[i].season[1] : i \in {j \in 1..Len(gags) : gags[j].season # None}}

\* C15: season_range is (min, max) of the seasons of exactly the records
\* that have a season (0 included), and None when no record has one.
C15_SeasonRange ==
  Validated =>
    IF Seasons = {} THEN Report.season_range = None
    ELSE /\ Report.season_range # None
         /\ Report.season_range[1] \in Seasons
         /\ Report.season_range[2] \in Seasons
         /\ \A n \in Seasons :
               Report.season_range[1] <= n /\ n <= Report.season_range[2]

\* C15 witness: a report whose range runs from season 0 to a later season.
C15_Witness ==
  /\ Validated
  /\ Report.season_range # None
  /\ Report.season_range[1] = 0
  /\ Report.season_range[2] > 0

\* C16: absurdist_gags holds one entry (title, owner, description) for
\* exactly the records with owner set, description set (the empty string
\* included) and no main-character name in the owner; its titles are the
\* titles of find_non_main_character_gags that have a description set.
C16_AbsurdistEntries ==
  Validated =>
    /\ Range(Report.absurdist_gags) =
         {[title |-> gags[i].title, owner |-> gags[i].cutaway_owner[1],
           description |-> gags[i].description[1]] :
            i \in {j \in 1..Len(gags) :
                     /\ gags[j].cutaway_owner # None
                     /\ gags[j].description # None
                     /\ ~IsMain(lower(gags[j].cutaway_owner[1]))}}
    /\ Len(Report.absurdist_gags) = Cardinality(Range(Report.absurdist_gags))
    /\ TitlesOf(Report.absurdist_gags) =
         {r.title : r \in {q \in Range(find_non_main_character_gags(gags)) :
                             q.description # None}}

\* The store and the index after the files of fs, in order, are parsed,
\* stored and indexed on top of the store g and the index idx.
RECURSIVE Inserted(_, _, _)
Inserted(g, idx, fs) ==
  IF fs = <<>> THEN [gags |-> g, index |-> idx]
  ELSE LET gag == ParseOf(Head(fs))
       IN Inserted(DictSet(g, gag), index_gag(idx, gag), Tail(fs))

IsReadable(f) == f.readable

ErrorsNaming(name) ==
  {i \in 1..Len(out) : out[i] = [msg |-> "Error parsing", name |-> name]}

\* C17: a file whose parsing raises an error adds no record and no index
\* entry, a message naming it is printed, and the load goes on: the store
\* and the index after the load are those of a load of the directory
\* without the failing files.
C17_FailingFileSkipped ==
  Loaded =>
    LET others == Inserted(<<>>, EmptyDict, SelectSeq(gag_files, IsReadable))
    IN /\ gags = others.gags
       /\ index = others.index
       /\ \A i \in 1..Len(gag_files) :
             /\ ~gag_files[i].readable =>
                  /\ Cardinality(ErrorsNaming(gag_files[i].name)) = 1
                  /\ \A j \in 1..Len(gags) : gags[j].filename # gag_files[i].name
             /\ gag_files[i].readable =>
                  /\ ErrorsNaming(gag_files[i].name) = {}
                  /\ ParseOf(gag_files[i]).title \in TitlesOf(gags)

\* C17 witness: a finished load of a directory whose first file fails and
\* whose second file is stored.
C17_Witness ==
  /\ Loaded
  /\ Len(gag_files) = 2
  /\ ~gag_files[1].readable
  /\ gag_files[2].readable
  /\ Len(gags) = 1
  /\ gags[1].filename = gag_files[2].name

\* C18: after any sequence of loads on one object the store and the index
\* hold only what derives from the files of the most recent load: they are
\* those of a first load of these files.
C18_RebuiltOnEveryLoad ==
  Loaded =>
    LET fresh == Inserted(<<>>, EmptyDict, SelectSeq(gag_files, IsReadable))
    IN /\ Range(gags) = Range(fresh.gags)
       /\ index = fresh.index

\* The maximal runs of letters a-z of t from position i on; every other
\* character separates.
RECURSIVE LetterRuns(_, _)
LetterRuns(t, i) ==
  IF i > Len(t) THEN {}
  ELSE IF ~IsLowerChar(t[i]) THEN LetterRuns(t, i + 1)
  ELSE LET e == CHOOSE j \in i..Len(t) :
                   /\ \A k \in i..j : IsLowerChar(t[k])
                   /\ j = Len(t) \/ ~IsLowerChar(t[j + 1])
       IN {SubSeq(t, i, e)} \cup LetterRuns(t, e + 1)

LetterTokens(description) ==
  {w \in LetterRuns(lower(description), 1) :
     Len(w) >= min_length /\ w \notin stop_words}

\* C19: the description tokens that _index_gag adds for a record are the
\* maximal runs of a-z of the lower-cased description, digits and
\* punctuation separating, of length >= 3 and outside the stop words; the
\* only other key is the lower-cased owner, and no token holds a digit.
C19_TokensAreLetterRuns ==
  (ret.op = "_index_gag" /\ ret.value[1].description # None) =>
    LET gag == ret.value[1]
        owner == IF Truthy(gag.cutaway_owner)
                 THEN {lower(gag.cutaway_owner[1])} ELSE {}
    IN /\ (DOMAIN index) \ owner \subseteq LetterTokens(gag.description[1])
       /\ LetterTokens(gag.description[1]) \subseteq DOMAIN index
       /\ \A k \in (DOMAIN index) \ owner : \A j \in 1..Len(k) : ~IsDigit(k[j])

\* The text holds a label of a numeric field and no number is found for it:
\* the field is left unset.
Malformed(f) ==
  /\ f.readable
  /\ \E label \in {SeasonLabel, OrderLabel} :
        FirstLabel(f.content, label) # 0 /\ SearchDigits(f.content, label) = None

\* The record of the i-th file is replaced by that of a later file with the
\* same title.
Collides(i) ==
  /\ gag_files[i].readable
  /\ \E j \in (i + 1)..Len(gag_files) :
        /\ gag_files[j].readable
        /\ ParseOf(gag_files[j]).title = ParseOf(gag_files[i]).title

StoredFiles == {gags[j].filename : j \in 1..Len(gags)}

\* C20: every error that a load recovers from is visible: a file with a
\* malformed numeric field, a file that cannot be parsed and a file whose
\* title collides is named in a message or is missing from the count of
\* loaded records, which falls short of the count of files by the files
\* that are not stored; a missing directory is reported by a message.
C20_NoErrorInvisible ==
  /\ Loaded =>
       /\ out[1].count - out[Len(out)].count =
            Cardinality({i \in 1..Len(gag_files) :
                           gag_files[i].name \notin StoredFiles})
       /\ \A i \in 1..Len(gag_files) :
             (Malformed(gag_files[i]) \/ ~gag_files[i].readable \/ Collides(i)) =>
                \/ ErrorsNaming(gag_files[i].name) # {}
                \/ gag_files[i].name \notin StoredFiles
  /\ (files = None /\ ret.op = "load_all_gags") =>
       out = <<[msg |-> "Gags directory not found"]>>

QueryOps == {"search", "find_non_main_character_gags", "validate_data"}

\* C21: a call of search, find_non_main_character_gags or validate_data,
\* with any query and scope, leaves the store, the fields of every record
\* and the index as they were.
C21_QueriesLeaveStoreAndIndex ==
  [][ret'.op \in QueryOps => (gags' = gags /\ index' = index)]_vars

\* C21 witness: a search, after a load, on a store of two records for a
\* query that is no key of the index, following another query.
C21_Witness ==
  /\ Loaded
  /\ ret.op = "search"
  /\ Len(gags) = 2
  /\ DOMAIN index # {}
  /\ lower(ret.query) \notin DOMAIN index
  /\ index = Inserted(<<>>, EmptyDict, SelectSeq(gag_files, IsReadable)).index
  /\ gags = Inserted(<<>>, EmptyDict, SelectSeq(gag_files, IsReadable)).gags

\* C22: save_gags_to_files never writes to a path that exists, be it from
\* before the call or from an earlier write of the call: every write adds
\* one file to the directory and leaves the files that were there as they
\* were.
C22_NeverOverwrites ==
  [][(pc = "saving" /\ pos' = pos + 1) =>
       /\ files[1] \subseteq files'[1]
       /\ Cardinality(files'[1]) = Cardinality(files[1]) + 1]_vars

\* The record is what the gag was written from: title, season and episode
\* as written; owner, episode_order and description as written when they
\* are not empty and unset when they are.
RoundTrip(gag, parsed) ==
  /\ parsed.title = gag.title
  /\ parsed.season = Some(gag.season)
  /\ parsed.episode = Some(gag.episode)
  /\ parsed.cutaway_owner = IF gag.owner = <<>> THEN None ELSE Some(gag.owner)
  /\ parsed.episode_order =
       IF gag.episode_order = <<>> THEN None ELSE Some(int(gag.episode_order))
  /\ parsed.description =
       IF gag.description = <<>> THEN None ELSE Some(gag.description)

\* C23: parsing a file that save_gags_to_files wrote for a gag gives the
\* record of that gag, and no field receives the line of another field.
C23_SaveParseRoundTrip ==
  ret.op = "parse_gag_file" =>
    \A i \in 1..Len(sorted_gags) :
       content_of(sorted_gags[i]) = ret.query => RoundTrip(sorted_gags[i], ret.value[1])

\* C24: the interactive loop always terminates in the end: on quit or
\* exit, on a keyboard interrupt, and when the input is exhausted.
C24_LoopTerminates == <>(pc = "exited")

====
